---- MODULE Spec2Model ----
(***************************************************************************)
(* The Water Conservation Game of the JalRakshak chat page                  *)
(* (src/unnamed/part_000, lines 479-742): the gameState object, the two     *)
(* setInterval schedules armed by startWaterGame, and the handlers          *)
(* startWaterGame, pauseWaterGame, stopWaterGame, closeWaterGame,           *)
(* toggleWaterGame, gameLoop, the countdown callback and handleGameClick.   *)
(*                                                                         *)
(* JavaScript is single threaded: every handler runs to completion, so     *)
(* each handler is one action.  Math.random() and the pointer position are *)
(* inputs drawn from small sets.  Real-valued sizes, speeds and positions  *)
(* are drawn from integer representatives of the ranges the code uses.     *)
(***************************************************************************)
EXTENDS Integers, Sequences, FiniteSets, TLC

VARIABLES
    gameState,  \* the gameState object (part_000:480-491), canvas/ctx left out
    timers,     \* ids of the armed countdown intervals (const timer, line 554)
    loops,      \* ids of the armed fast intervals (setInterval(gameLoop, 50))
    nextId,     \* id the next setInterval call returns
    out,        \* messages the last handler passed to addMessageToChat
    lastOp,     \* the handler that ran last, the interval id that fired, the
                \* point clicked
    pre,        \* the scalar fields of gameState when that handler was entered
    fired,      \* countdown bodies run since startWaterGame last passed its guard
    env         \* what the environment may still do in this run

vars == <<gameState, timers, loops, nextId, out, lastOp, pre, fired, env>>

----------------------------------------------------------------------------
(* Program constants *)

InitialWater == 100
InitialTime == 60
MaxWater == 100
MissPenalty == 2
DropSpawnY == -20
WasteSpawnY == -30
DropXMargin == 20
WasteXMargin == 30

(* Bounds of the model *)

CanvasWidth == 32       \* canvas.width  (set by the page, not by the script)
CanvasHeight == 4       \* canvas.height (set by the page, not by the script)
MaxWaste == 2           \* waste items alive at once in a pair run
LateSeconds == 1        \* a clock run spawns only while timeLeft <= LateSeconds
EarlySeconds == 1       \* a mix run lets the countdown run this many seconds
LongStarts == 2         \* startWaterGame passes its guard at most this often
ShortStarts == 1
ClockDropBudget == 1    \* successful spawn draws granted to one run
MixWasteBudget == 1
FieldDropBudget == 2
DrainWasteBudget == 5
PairWasteBudget == 2

(* Representatives of the ranges the spawners draw from.                    *)
(*   drop:  x = Math.random() * (canvas.width - 20)   in [0, width - 20)   *)
(*          size = 15 + Math.random() * 10            in [15, 25)          *)
(*          speed = 2 + Math.random() * 3             in [2, 5)            *)
(*          value = 5 + Math.floor(Math.random()*10)  in 5..14             *)
(*   waste: x = Math.random() * (canvas.width - 30)   in [0, width - 30)   *)
(*          size = 20 + Math.random() * 15            in [20, 35)          *)
(*          speed = 1 + Math.random() * 2             in [1, 3)            *)
(*          damage = 10 + Math.floor(Math.random()*15) in 10..24           *)
(* A run draws from the representatives of its profile.                    *)

DropXs(profile) == {0} \cap (0 .. CanvasWidth - DropXMargin - 1)
DropSizes(profile) == IF profile = "mix" THEN {24} ELSE {15}
DropSpeeds(profile) == IF profile = "field" THEN {2, 4} ELSE {4}
DropValues(profile) == IF profile = "field" THEN {14} ELSE {5}
WasteXs(profile) == {0} \cap (0 .. CanvasWidth - WasteXMargin - 1)
WasteSizes(profile) == IF profile = "mix" THEN {34} ELSE {20}
WasteSpeeds(profile) == {2}
WasteDamages(profile) == IF profile = "drain" THEN {24} ELSE {10}

\* pointer positions relative to the canvas (clientX - rect.left, ...)
ClickPoints == {<<9, 0>>, <<20, 0>>, <<40, 40>>}

----------------------------------------------------------------------------
(* The scalar fields of gameState, kept in pre *)

Scalars(g) ==
    [isRunning |-> g.isRunning, isPaused |-> g.isPaused,
     waterLevel |-> g.waterLevel, score |-> g.score, timeLeft |-> g.timeLeft,
     gameLoop |-> g.gameLoop, nDrops |-> Len(g.drops), nWaste |-> Len(g.waste)]

Min(a, b) == IF a <= b THEN a ELSE b

RemoveAt(s, i) == SubSeq(s, 1, i - 1) \o SubSeq(s, i + 1, Len(s))

----------------------------------------------------------------------------
(* What the environment may do in one run: how often startWaterGame may    *)
(* still pass its guard and how many spawns the random draws still grant.  *)
(*   clock: the whole countdown; drops spawn in its last seconds only      *)
(*   mix:   one drop beside waste, the first seconds of the countdown      *)
(*   field: drops of two speeds, before the first countdown second ends    *)
(*   drain: waste of the largest damage and, once the meter is empty, one  *)
(*          drop and the first seconds of the countdown                    *)
(*   pair:  waste items alive together, before the first countdown second  *)
(*          ends                                                           *)

Profiles ==
    { [profile |-> "clock", starts |-> LongStarts,
       drops |-> ClockDropBudget, waste |-> 0],
      [profile |-> "mix", starts |-> LongStarts,
       drops |-> 1, waste |-> MixWasteBudget],
      [profile |-> "field", starts |-> ShortStarts,
       drops |-> FieldDropBudget, waste |-> 0],
      [profile |-> "drain", starts |-> ShortStarts,
       drops |-> 1, waste |-> DrainWasteBudget],
      [profile |-> "pair", starts |-> ShortStarts,
       drops |-> 0, waste |-> PairWasteBudget] }

Init ==
    /\ gameState = [isRunning |-> FALSE, isPaused |-> FALSE,
                    waterLevel |-> InitialWater, score |-> 0,
                    timeLeft |-> InitialTime,
                    drops |-> <<>>, waste |-> <<>>, gameLoop |-> 0]
    /\ timers = {}
    /\ loops = {}
    /\ nextId = 1
    /\ out = <<>>
    /\ lastOp = [op |-> "init", id |-> 0, at |-> <<>>]
    /\ pre = Scalars(gameState)
    /\ fired = 0
    /\ env \in Profiles

----------------------------------------------------------------------------
(* stopWaterGame, part_000:575-591 *)

\* a stop that also puts the water meter back
StopAndRefill(g) ==
    [g EXCEPT !.isRunning = FALSE, !.isPaused = FALSE, !.gameLoop = 0,
              !.waterLevel = InitialWater]

\* a stop that forgets isRunning = false
StopKeepsRunning(g) == [g EXCEPT !.isPaused = FALSE, !.gameLoop = 0]

StopWaterGameState(g) ==
    [g EXCEPT !.isRunning = FALSE, !.isPaused = FALSE, !.gameLoop = 0]

\* a stop that forgets clearInterval
StopLoopsKeep(g, ls) == ls

\* if (gameState.gameLoop) clearInterval(gameState.gameLoop)
StopLoops(g, ls) == ls \ {g.gameLoop}

(* closeWaterGame, part_000:532-535: hides the panel and stops the game *)

CloseWaterGameState(g) == StopWaterGameState(g)

(* toggleWaterGame, part_000:522-530.  display is the panel's style.display *)
(* as the handler reads it; showing the panel touches no game state.        *)

ToggleWaterGameState(g, display) ==
    IF display = "none" THEN g ELSE StopWaterGameState(g)

ToggleLoops(g, ls, display) ==
    IF display = "none" THEN ls ELSE StopLoops(g, ls)

(* startWaterGame, part_000:537-567.  id is the value both setInterval      *)
(* calls return (the two handles live in separate places, so one number    *)
(* names the pair armed by one start).                                     *)

\* a start without the isRunning guard
StartUnguarded(g) == TRUE

StartGuard(g) == ~g.isRunning

\* a start that forgets to empty the waste array
StartKeepingWaste(g, id) ==
    [g EXCEPT !.isRunning = TRUE, !.isPaused = FALSE,
              !.waterLevel = InitialWater, !.score = 0,
              !.timeLeft = InitialTime,
              !.drops = <<>>, !.gameLoop = id]

StartWaterGameState(g, id) ==
    [g EXCEPT !.isRunning = TRUE, !.isPaused = FALSE,
              !.waterLevel = InitialWater, !.score = 0,
              !.timeLeft = InitialTime,
              !.drops = <<>>, !.waste = <<>>, !.gameLoop = id]

StartTimers(ts, id) == ts \cup {id}

StartLoops(ls, id) == ls \cup {id}

(* pauseWaterGame, part_000:569-573 *)

\* a pause that cannot resume
PauseOnly(g) == [g EXCEPT !.isPaused = TRUE]

PauseWaterGameState(g) == [g EXCEPT !.isPaused = ~g.isPaused]

(* The guard shared by gameLoop (594), the countdown callback (555) and    *)
(* handleGameClick (699): if (!isRunning || isPaused) return               *)

\* the guard without its isPaused half
InertIgnoringPause(g) == ~g.isRunning

Inert(g) == ~g.isRunning \/ g.isPaused

(* endWaterGame, part_000:739-742 *)

GameOverMessage(g) ==
    [type |-> "over", score |-> g.score, waterLevel |-> g.waterLevel]

(* The countdown callback, part_000:554-564 *)

\* the expiry test off by one
TimerExpiredLate(g) == g.timeLeft < 0

TimerExpired(g) == g.timeLeft <= 0

\* a countdown that counts up
TimerIncrement(g) == [g EXCEPT !.timeLeft = g.timeLeft + 1]

TimerDecrement(g) == [g EXCEPT !.timeLeft = g.timeLeft - 1]

TimerState(g) ==
    IF Inert(g) THEN g
    ELSE LET g1 == TimerDecrement(g)
         IN IF TimerExpired(g1) THEN StopWaterGameState(g1) ELSE g1

TimerTimers(g, ts, id) ==
    IF Inert(g) THEN ts
    ELSE IF TimerExpired(TimerDecrement(g)) THEN ts \ {id} ELSE ts

TimerLoops(g, ls) ==
    IF Inert(g) THEN ls
    ELSE IF TimerExpired(TimerDecrement(g)) THEN StopLoops(g, ls) ELSE ls

\* the game-over message sent by every countdown body
TimerOutEveryTick(g) ==
    IF Inert(g) THEN <<>>
    ELSE <<GameOverMessage(TimerDecrement(g))>>

TimerOut(g) ==
    IF Inert(g) THEN <<>>
    ELSE LET g1 == TimerDecrement(g)
         IN IF TimerExpired(g1) THEN <<GameOverMessage(StopWaterGameState(g1))>>
            ELSE <<>>

----------------------------------------------------------------------------
(* spawnWaterDrop, part_000:611-619, and spawnWaste, part_000:621-629 *)

NewDrops(profile) ==
    [x : DropXs(profile), y : {DropSpawnY}, size : DropSizes(profile),
     speed : DropSpeeds(profile), value : DropValues(profile)]

NewWaste(profile) ==
    [x : WasteXs(profile), y : {WasteSpawnY}, size : WasteSizes(profile),
     speed : WasteSpeeds(profile), damage : WasteDamages(profile)]

\* a spawn that puts the drop in front (unshift for push)
SpawnWaterDropFirst(g, d) == [g EXCEPT !.drops = <<d>> \o g.drops]

SpawnWaterDrop(g, d) == [g EXCEPT !.drops = Append(g.drops, d)]

SpawnWaste(g, w) == [g EXCEPT !.waste = Append(g.waste, w)]

(* updateDrops, part_000:631-641: the loop runs from the last index down *)

MissedDrop(g) == [g EXCEPT !.waterLevel = g.waterLevel - MissPenalty]

\* the boundary test on the far edge of the entity
CrossedTopEdge(e) == e.y - e.size > CanvasHeight

Crossed(e) == e.y > CanvasHeight

RECURSIVE UpdateDropsFrom(_, _)
UpdateDropsFrom(g, i) ==
    IF i < 1 THEN g
    ELSE LET drop == [g.drops[i] EXCEPT !.y = g.drops[i].y + g.drops[i].speed]
             g1 == [g EXCEPT !.drops[i] = drop]
             g2 == IF Crossed(drop)
                   THEN MissedDrop([g1 EXCEPT !.drops = RemoveAt(g1.drops, i)])
                   ELSE g1
         IN UpdateDropsFrom(g2, i - 1)

UpdateDrops(g) == UpdateDropsFrom(g, Len(g.drops))

(* updateWaste, part_000:643-652 *)

\* updateWaste charging the miss penalty as updateDrops does
RECURSIVE UpdateWasteFromCharged(_, _)
UpdateWasteFromCharged(g, i) ==
    IF i < 1 THEN g
    ELSE LET w == [g.waste[i] EXCEPT !.y = g.waste[i].y + g.waste[i].speed]
             g1 == [g EXCEPT !.waste[i] = w]
             g2 == IF Crossed(w)
                   THEN MissedDrop([g1 EXCEPT !.waste = RemoveAt(g1.waste, i)])
                   ELSE g1
         IN UpdateWasteFromCharged(g2, i - 1)

RECURSIVE UpdateWasteFrom(_, _)
UpdateWasteFrom(g, i) ==
    IF i < 1 THEN g
    ELSE LET w == [g.waste[i] EXCEPT !.y = g.waste[i].y + g.waste[i].speed]
             g1 == [g EXCEPT !.waste[i] = w]
             g2 == IF Crossed(w)
                   THEN [g1 EXCEPT !.waste = RemoveAt(g1.waste, i)]
                   ELSE g1
         IN UpdateWasteFrom(g2, i - 1)

UpdateWaste(g) == UpdateWasteFrom(g, Len(g.waste))

(* gameLoop, part_000:593-609.  d and w hold the drop and the waste item   *)
(* the two random draws grant: <<>> when a draw fails, <<e>> when it       *)
(* succeeds.                                                               *)

\* a loop that moves before it spawns
GameLoopMoveFirst(g, d, w) ==
    IF Inert(g) THEN g
    ELSE LET g0 == UpdateWaste(UpdateDrops(g))
             g1 == IF d = <<>> THEN g0 ELSE SpawnWaterDrop(g0, d[1])
         IN IF w = <<>> THEN g1 ELSE SpawnWaste(g1, w[1])

GameLoopState(g, d, w) ==
    IF Inert(g) THEN g
    ELSE LET g1 == IF d = <<>> THEN g ELSE SpawnWaterDrop(g, d[1])
             g2 == IF w = <<>> THEN g1 ELSE SpawnWaste(g1, w[1])
         IN UpdateWaste(UpdateDrops(g2))

----------------------------------------------------------------------------
(* handleGameClick, part_000:698-727 *)

Dist2(cx, cy, e) == (cx - e.x) * (cx - e.x) + (cy - e.y) * (cy - e.y)

\* the circle test without its rim
HitsDropStrict(cx, cy, drop) == Dist2(cx, cy, drop) < drop.size * drop.size

\* Math.sqrt(d2) <= size, for d2 >= 0 and size >= 0
HitsDrop(cx, cy, drop) == Dist2(cx, cy, drop) <= drop.size * drop.size

\* the square test without its vertical half
HitsWasteColumn(cx, cy, w) == cx >= w.x /\ cx <= w.x + w.size

HitsWaste(cx, cy, w) ==
    /\ cx >= w.x /\ cx <= w.x + w.size
    /\ cy >= w.y /\ cy <= w.y + w.size

\* a scan of the drops from the first index up
FindDropOldestFirst(g, cx, cy, i) ==
    LET hits == {k \in 1 .. i : HitsDrop(cx, cy, g.drops[k])}
    IN IF hits = {} THEN 0 ELSE CHOOSE k \in hits : \A m \in hits : k <= m

RECURSIVE FindDrop(_, _, _, _)
FindDrop(g, cx, cy, i) ==
    IF i < 1 THEN 0
    ELSE IF HitsDrop(cx, cy, g.drops[i]) THEN i
    ELSE FindDrop(g, cx, cy, i - 1)

RECURSIVE FindWaste(_, _, _, _)
FindWaste(g, cx, cy, i) ==
    IF i < 1 THEN 0
    ELSE IF HitsWaste(cx, cy, g.waste[i]) THEN i
    ELSE FindWaste(g, cx, cy, i - 1)

\* a collect that takes the value off the score
CollectDropDebit(g, i) ==
    [g EXCEPT !.score = g.score - g.drops[i].value,
              !.waterLevel = Min(MaxWater, g.waterLevel + g.drops[i].value),
              !.drops = RemoveAt(g.drops, i)]

CollectDrop(g, i) ==
    [g EXCEPT !.score = g.score + g.drops[i].value,
              !.waterLevel = Min(MaxWater, g.waterLevel + g.drops[i].value),
              !.drops = RemoveAt(g.drops, i)]

\* a waste hit that ends the game once the meter is empty
TouchWasteEndsGame(g, i) ==
    [g EXCEPT !.waterLevel = g.waterLevel - g.waste[i].damage,
              !.waste = RemoveAt(g.waste, i),
              !.isRunning = g.waterLevel - g.waste[i].damage > 0]

TouchWaste(g, i) ==
    [g EXCEPT !.waterLevel = g.waterLevel - g.waste[i].damage,
              !.waste = RemoveAt(g.waste, i)]

\* a click handler that scans the waste before the drops
HandleClickWasteFirst(g, cx, cy) ==
    IF Inert(g) THEN g
    ELSE LET i == FindDrop(g, cx, cy, Len(g.drops))
             j == FindWaste(g, cx, cy, Len(g.waste))
         IN IF j > 0 THEN TouchWaste(g, j)
            ELSE IF i > 0 THEN CollectDrop(g, i)
            ELSE g

\* a click handler without its guard
HandleClickUnguarded(g, cx, cy) ==
    LET i == FindDrop(g, cx, cy, Len(g.drops))
        j == FindWaste(g, cx, cy, Len(g.waste))
    IN IF i > 0 THEN CollectDrop(g, i)
       ELSE IF j > 0 THEN TouchWaste(g, j)
       ELSE g

\* a click handler that does not return after the drop it collected
HandleClickFallThrough(g, cx, cy) ==
    IF Inert(g) THEN g
    ELSE LET i == FindDrop(g, cx, cy, Len(g.drops))
             g1 == IF i > 0 THEN CollectDrop(g, i) ELSE g
             j == FindWaste(g1, cx, cy, Len(g1.waste))
         IN IF j > 0 THEN TouchWaste(g1, j) ELSE g1

HandleGameClickState(g, cx, cy) ==
    IF Inert(g) THEN g
    ELSE LET i == FindDrop(g, cx, cy, Len(g.drops))
             j == FindWaste(g, cx, cy, Len(g.waste))
         IN IF i > 0 THEN CollectDrop(g, i)
            ELSE IF j > 0 THEN TouchWaste(g, j)
            ELSE g

----------------------------------------------------------------------------
(* The actions: one per handler.  Each records the handler in lastOp, the  *)
(* scalars it found in pre and the chat messages it sent in out.           *)

RanAt(op, id, at) ==
    /\ lastOp' = [op |-> op, id |-> id, at |-> at]
    /\ pre' = Scalars(gameState)

Ran(op, id) == RanAt(op, id, <<>>)

StartWaterGame ==
    /\ StartGuard(gameState) => env.starts > 0
    /\ IF StartGuard(gameState)
       THEN /\ gameState' = StartWaterGameState(gameState, nextId)
            /\ timers' = StartTimers(timers, nextId)
            /\ loops' = StartLoops(loops, nextId)
            /\ nextId' = nextId + 1
            /\ out' = <<[type |-> "started"]>>
            /\ fired' = 0
            /\ env' = [env EXCEPT !.starts = @ - 1]
       ELSE /\ out' = <<>>
            /\ UNCHANGED <<gameState, timers, loops, nextId, fired, env>>
    /\ Ran("start", 0)

PauseWaterGame ==
    /\ gameState' = PauseWaterGameState(gameState)
    /\ out' = <<>>
    /\ Ran("pause", 0)
    /\ UNCHANGED <<timers, loops, nextId, fired, env>>

CloseWaterGame ==
    /\ gameState' = CloseWaterGameState(gameState)
    /\ loops' = StopLoops(gameState, loops)
    /\ out' = <<>>
    /\ Ran("close", 0)
    /\ UNCHANGED <<timers, nextId, fired, env>>

ToggleWaterGame ==
    \E display \in {"none", "block"} :
        /\ gameState' = ToggleWaterGameState(gameState, display)
        /\ loops' = ToggleLoops(gameState, loops, display)
        /\ out' = <<>>
        /\ Ran(IF display = "none" THEN "show" ELSE "hide", 0)
        /\ UNCHANGED <<timers, nextId, fired, env>>

\* the part of the countdown a run of the profile covers
MayCount ==
    \/ env.profile = "clock"
    \/ env.profile = "mix" /\ gameState.timeLeft > InitialTime - EarlySeconds
    \/ /\ env.profile = "drain"
       /\ gameState.waterLevel < MissPenalty
       /\ gameState.timeLeft > InitialTime - EarlySeconds

\* the countdown interval id fires
Timer(id) ==
    /\ id \in timers
    /\ Inert(gameState) \/ MayCount
    /\ gameState' = TimerState(gameState)
    /\ timers' = TimerTimers(gameState, timers, id)
    /\ loops' = TimerLoops(gameState, loops)
    /\ out' = TimerOut(gameState)
    /\ fired' = IF Inert(gameState) THEN fired ELSE fired + 1
    /\ Ran("timer", id)
    /\ UNCHANGED <<nextId, env>>

MaySpawn == env.profile = "clock" => gameState.timeLeft <= LateSeconds

\* a drain run grants its drop once the meter cannot pay a miss
MaySpawnDrop == env.profile = "drain" => gameState.waterLevel < MissPenalty

\* waste items a run of the profile keeps alive at once
WasteCap == IF env.profile = "pair" THEN MaxWaste ELSE 1

DropDraws ==
    {<<>>} \cup
    IF ~Inert(gameState) /\ MaySpawn /\ MaySpawnDrop /\ env.drops > 0
    THEN {<<d>> : d \in NewDrops(env.profile)} ELSE {}

WasteDraws ==
    {<<>>} \cup
    IF ~Inert(gameState) /\ MaySpawn /\ env.waste > 0
         /\ Len(gameState.waste) < WasteCap
    THEN {<<w>> : w \in NewWaste(env.profile)} ELSE {}

\* the fast interval id fires
GameLoop(id) ==
    /\ id \in loops
    /\ \E d \in DropDraws, w \in WasteDraws :
          /\ gameState' = GameLoopState(gameState, d, w)
          /\ env' = [env EXCEPT !.drops = @ - Len(d), !.waste = @ - Len(w)]
    /\ out' = <<>>
    /\ Ran("gameLoop", id)
    /\ UNCHANGED <<timers, loops, nextId, fired>>

HandleGameClick ==
    /\ \E p \in ClickPoints :
          /\ gameState' = HandleGameClickState(gameState, p[1], p[2])
          /\ RanAt("click", 0, p)
    /\ out' = <<>>
    /\ UNCHANGED <<timers, loops, nextId, fired, env>>

Next ==
    \/ StartWaterGame
    \/ PauseWaterGame
    \/ CloseWaterGame
    \/ ToggleWaterGame
    \/ \E id \in timers : Timer(id)
    \/ \E id \in loops : GameLoop(id)
    \/ HandleGameClick

Spec == Init /\ [][Next]_vars

(* The countdown interval is a setInterval schedule: an armed interval     *)
(* keeps firing.  A run of the whole countdown under that schedule:        *)

InitClock == Init /\ env.profile = "clock"

TimerFires == \E id \in timers : Timer(id)

LiveSpec == InitClock /\ [][Next]_vars /\ WF_vars(TimerFires)

----------------------------------------------------------------------------
(* Properties *)

Stopped(op) == op \in {"close", "hide"}

SameMeters(g, h) ==
    /\ g.waterLevel = h.waterLevel
    /\ g.score = h.score
    /\ g.timeLeft = h.timeLeft

\* C1: in every reachable state the water level lies in 0..100.
C1_WaterLevelInRange ==
    gameState.waterLevel >= 0 /\ gameState.waterLevel <= 100

\* C2: a stop leaves no countdown interval and no fast interval armed, and
\* timeLeft is decremented only by the interval the newest start armed.
C2_StopCancelsBothTriggers ==
    /\ Stopped(lastOp.op) => timers = {} /\ gameState.gameLoop = 0
    /\ (lastOp.op = "timer" /\ gameState.timeLeft < pre.timeLeft)
          => lastOp.id = nextId - 1

\* C3: once 60 countdown bodies have run since the start, timeLeft is 0 and
\* the game is not running; a further firing of a countdown interval
\* changes nothing.
C3_Countdown ==
    [][ /\ fired' = 60 => gameState'.timeLeft = 0 /\ ~gameState'.isRunning
        /\ (fired = 60 /\ lastOp'.op = "timer")
              => gameState' = gameState /\ fired' = fired /\ out' = <<>>
      ]_vars

C3_SixtyFirstFiring ==
    /\ lastOp.op = "timer"
    /\ fired = 60
    /\ ~pre.isRunning /\ pre.timeLeft = 0
    /\ gameState.timeLeft = 0 /\ ~gameState.isRunning

\* C4: a start of a game that is not running sets every field to its
\* default, makes the game running and arms both intervals.
C4_StartResets ==
    (lastOp.op = "start" /\ ~pre.isRunning) =>
        /\ gameState = [isRunning |-> TRUE, isPaused |-> FALSE,
                        waterLevel |-> 100, score |-> 0, timeLeft |-> 60,
                        drops |-> <<>>, waste |-> <<>>,
                        gameLoop |-> nextId - 1]
        /\ gameState.gameLoop # 0
        /\ gameState.gameLoop \in timers

C4_StartAfterUsedGame ==
    /\ lastOp.op = "start"
    /\ ~pre.isRunning
    /\ pre.score > 0 /\ pre.waterLevel < 100 /\ pre.timeLeft < 60
    /\ gameState.isRunning

\* C5: a start of a game that is running (paused or not) changes no field
\* of the game and arms no interval.
C5_StartWhileActiveIsNoOp ==
    [][ (lastOp'.op = "start" /\ gameState.isRunning)
           => /\ gameState' = gameState
              /\ timers' = timers
              /\ nextId' = nextId
      ]_vars

C5_StartWhilePaused ==
    /\ lastOp.op = "start"
    /\ pre.isRunning /\ pre.isPaused
    /\ gameState.isRunning /\ gameState.isPaused
    /\ Len(gameState.drops) > 0

\* C6: a pause toggle on a running game flips isPaused and changes nothing
\* else.
C6_PauseToggles ==
    [][ (lastOp'.op = "pause" /\ gameState.isRunning)
           => /\ gameState' = [gameState EXCEPT !.isPaused = ~gameState.isPaused]
              /\ timers' = timers
      ]_vars

C6_Resumed ==
    /\ lastOp.op = "pause"
    /\ pre.isRunning /\ pre.isPaused
    /\ gameState.isRunning /\ ~gameState.isPaused
    /\ Len(gameState.drops) > 0
    /\ gameState.score > 0

\* C7: a pause toggle on a game that is not running changes no field, the
\* pause flag included.
C7_PauseIgnoredWhenNotRunning ==
    (lastOp.op = "pause" /\ ~pre.isRunning) => Scalars(gameState) = pre

\* C8: a stop leaves the game not running and not paused and keeps
\* waterLevel, score and timeLeft; while the game is not running only a
\* start changes them.
C8_StopKeepsMeters ==
    [][ /\ Stopped(lastOp'.op)
           => /\ ~gameState'.isRunning /\ ~gameState'.isPaused
              /\ SameMeters(gameState', gameState)
        /\ (~gameState.isRunning /\ lastOp'.op # "start")
           => SameMeters(gameState', gameState)
      ]_vars

C8_StoppedWhilePaused ==
    /\ lastOp.op = "close"
    /\ pre.isRunning /\ pre.isPaused
    /\ ~gameState.isRunning /\ ~gameState.isPaused
    /\ gameState.score > 0
    /\ gameState.waterLevel < 100
    /\ gameState.timeLeft < 60

\* C9: the countdown body that brings timeLeft to 0 ends the game and
\* leaves no interval armed; afterwards no firing and no click changes the
\* game until the next start.
C9_ExhaustionDisarms ==
    /\ (lastOp.op = "timer" /\ pre.timeLeft > 0 /\ gameState.timeLeft = 0)
          => /\ ~gameState.isRunning
             /\ gameState.gameLoop = 0
             /\ timers = {}
    /\ (lastOp.op \in {"timer", "gameLoop", "click"} /\ ~pre.isRunning)
          => Scalars(gameState) = pre

\* C10: while the game is paused a firing of either interval changes
\* nothing, and the next pause toggle resumes from that very state.
C10_PauseFreezes ==
    [][ (gameState.isRunning /\ gameState.isPaused)
           => /\ lastOp'.op \in {"timer", "gameLoop"}
                 => gameState' = gameState /\ timers' = timers
              /\ lastOp'.op = "pause"
                 => gameState' = [gameState EXCEPT !.isPaused = FALSE]
      ]_vars

C10_TickWhilePaused ==
    /\ lastOp.op \in {"timer", "gameLoop"}
    /\ pre.isRunning /\ pre.isPaused
    /\ gameState.isRunning /\ gameState.isPaused
    /\ Len(gameState.drops) > 0
    /\ gameState.score > 0

----------------------------------------------------------------------------
(* Geometry and bookkeeping of the properties below, written apart from    *)
(* the handlers' own tests.                                                *)

Active(g) == g.isRunning /\ ~g.isPaused

Clicked == lastOp'.op = "click"

InCircle(p, e) ==
    (p[1] - e.x) * (p[1] - e.x) + (p[2] - e.y) * (p[2] - e.y)
        <= e.size * e.size

InSquare(p, e) ==
    /\ e.x <= p[1] /\ p[1] <= e.x + e.size
    /\ e.y <= p[2] /\ p[2] <= e.y + e.size

DropsAt(g, p) == {i \in 1 .. Len(g.drops) : InCircle(p, g.drops[i])}

WasteAt(g, p) == {j \in 1 .. Len(g.waste) : InSquare(p, g.waste[j])}

Without(q, i) ==
    [k \in 1 .. Len(q) - 1 |-> IF k < i THEN q[k] ELSE q[k + 1]]

Clamp(v) == IF v < 0 THEN 0 ELSE IF v > 100 THEN 100 ELSE v

RECURSIVE Penalised(_, _)
Penalised(v, k) == IF k = 0 THEN v ELSE Penalised(Clamp(v - 2), k - 1)

\* C11: while the game is running no tick and no click lowers the score,
\* and the score is never negative.
C11_ScoreMonotone ==
    [][ /\ gameState'.score >= 0
        /\ (gameState.isRunning
              /\ lastOp'.op \in {"gameLoop", "timer", "click"})
           => gameState'.score >= gameState.score
      ]_vars

C11_ScoreRoseTwice ==
    /\ lastOp.op = "click"
    /\ pre.isRunning
    /\ pre.score > 0
    /\ gameState.score > pre.score

\* C12 as stated: one click removes at most one entity and changes at most
\* one of score and waterLevel.
C12_AtMostOneEffect ==
    lastOp.op = "click" =>
        /\ (pre.nDrops - Len(gameState.drops))
             + (pre.nWaste - Len(gameState.waste)) <= 1
        /\ ~(gameState.score # pre.score
               /\ gameState.waterLevel # pre.waterLevel)

\* C12 as amended: one click removes at most one entity; removing a drop
\* raises the score and may raise waterLevel in the same call, removing a
\* waste item changes waterLevel only, and a click that removes nothing
\* changes nothing.
C12_OneEntityPerClick ==
    [][ Clicked =>
          \/ gameState' = gameState
          \/ \E i \in 1 .. Len(gameState.drops) :
                gameState' =
                  [gameState EXCEPT
                     !.drops = Without(gameState.drops, i),
                     !.score = gameState.score + gameState.drops[i].value,
                     !.waterLevel = gameState'.waterLevel]
                /\ gameState'.waterLevel >= gameState.waterLevel
          \/ \E j \in 1 .. Len(gameState.waste) :
                gameState' =
                  [gameState EXCEPT
                     !.waste = Without(gameState.waste, j),
                     !.waterLevel = gameState'.waterLevel]
      ]_vars

C12_CollectedBesideWaste ==
    /\ lastOp.op = "click"
    /\ gameState.score > pre.score
    /\ Len(gameState.drops) = pre.nDrops - 1
    /\ pre.nWaste = 1 /\ Len(gameState.waste) = 1
    /\ InSquare(lastOp.at, gameState.waste[1])

\* C13: a click of a running, unpaused game within size of a drop's centre
\* adds that drop's value to the score, sets waterLevel to
\* min(100, old + value) and removes that drop.
C13_Collect ==
    [][ (Clicked /\ Active(gameState)
           /\ DropsAt(gameState, lastOp'.at) # {})
        => \E i \in DropsAt(gameState, lastOp'.at) :
              LET v == gameState.drops[i].value
                  w == gameState.waterLevel + v
              IN gameState' =
                   [gameState EXCEPT
                      !.score = gameState.score + v,
                      !.waterLevel = IF w > 100 THEN 100 ELSE w,
                      !.drops = Without(gameState.drops, i)]
      ]_vars

C13_CollectedBelowFull ==
    /\ lastOp.op = "click"
    /\ pre.isRunning /\ ~pre.isPaused
    /\ pre.waterLevel < 95
    /\ gameState.score = pre.score + 5
    /\ gameState.waterLevel = pre.waterLevel + 5
    /\ Len(gameState.drops) = pre.nDrops - 1

\* C14: a click of a running, unpaused game that hits no drop and lies in a
\* waste item's square, edges included, sets waterLevel to
\* clamp(old - damage, 0, 100), removes that item and keeps the score.
C14_HazardDamageClamped ==
    [][ (Clicked /\ Active(gameState)
           /\ DropsAt(gameState, lastOp'.at) = {}
           /\ WasteAt(gameState, lastOp'.at) # {})
        => \E j \in WasteAt(gameState, lastOp'.at) :
              gameState' =
                [gameState EXCEPT
                   !.waterLevel =
                      Clamp(gameState.waterLevel - gameState.waste[j].damage),
                   !.waste = Without(gameState.waste, j)]
      ]_vars

\* C15: a tick that removes k drops at the bottom applies
\* clamp(old - 2, 0, 100) k times to waterLevel and keeps the score.
C15_MissPenaltyClamped ==
    [][ (lastOp'.op = "gameLoop" /\ Active(gameState))
        => LET spawned == env.drops - env'.drops
               k == Len(gameState.drops) + spawned - Len(gameState'.drops)
           IN /\ gameState'.waterLevel = Penalised(gameState.waterLevel, k)
              /\ gameState'.score = gameState.score
      ]_vars

\* C16: no drop and no waste item in the arrays lies below the bottom of
\* the canvas.
C16_NoEntityBelowField ==
    /\ \A i \in 1 .. Len(gameState.drops) : gameState.drops[i].y <= CanvasHeight
    /\ \A j \in 1 .. Len(gameState.waste) : gameState.waste[j].y <= CanvasHeight

C16_DropRemovedAtBottom ==
    /\ lastOp.op = "gameLoop"
    /\ Len(gameState.drops) < pre.nDrops
    /\ Len(gameState.drops) > 0
    /\ gameState.waterLevel < pre.waterLevel

\* C17: a click of a game that is paused or not running changes nothing,
\* also on an entity left in the arrays.
C17_ClickIgnoredWhenInactive ==
    [][ (Clicked /\ ~Active(gameState))
        => gameState' = gameState /\ timers' = timers
      ]_vars

C17_ClickOnLeftoverDrop ==
    /\ lastOp.op = "click"
    /\ ~gameState.isRunning
    /\ DropsAt(gameState, lastOp.at) # {}

\* C18: a click that hits no drop and no waste item changes nothing.
C18_MissChangesNothing ==
    [][ (Clicked /\ DropsAt(gameState, lastOp'.at) = {}
           /\ WasteAt(gameState, lastOp'.at) = {})
        => gameState' = gameState /\ timers' = timers /\ out' = <<>>
      ]_vars

C18_MissOutsideField ==
    /\ lastOp.op = "click"
    /\ lastOp.at[1] > CanvasWidth /\ lastOp.at[2] > CanvasHeight
    /\ Active(gameState)
    /\ Len(gameState.drops) > 0
    /\ Len(gameState.waste) > 0

\* C19: the game-over message is sent by exactly the countdown body that
\* ends a running game, carries the score and waterLevel of that moment,
\* and is sent by no stop.
C19_GameOverOnExhaustionOnly ==
    [][ IF lastOp'.op = "timer" /\ gameState.isRunning /\ ~gameState'.isRunning
        THEN /\ out' = <<[type |-> "over", score |-> gameState.score,
                          waterLevel |-> gameState.waterLevel]>>
             /\ gameState'.score = gameState.score
             /\ gameState'.waterLevel = gameState.waterLevel
        ELSE \A n \in 1 .. Len(out') : out'[n].type # "over"
      ]_vars

C19_GameOverSent ==
    /\ lastOp.op = "timer"
    /\ Len(out) = 1
    /\ out[1].type = "over"
    /\ out[1].score > 0

\* C20: timeLeft stays in 0..60, and every countdown body run while the
\* game is running and unpaused lowers it.
C20_TimeLeftInRange ==
    [][ /\ gameState'.timeLeft >= 0 /\ gameState'.timeLeft <= 60
        /\ (lastOp'.op = "timer" /\ Active(gameState))
           => gameState'.timeLeft < gameState.timeLeft
      ]_vars

C20_LeakedIntervalCounts ==
    /\ lastOp.op = "timer"
    /\ lastOp.id = 1
    /\ timers = {1, 2}
    /\ gameState.isRunning
    /\ gameState.timeLeft = pre.timeLeft - 1

----------------------------------------------------------------------------
(* One pass of the movers over a sequence, written apart from updateDrops  *)
(* and updateWaste.                                                        *)

Advance(e) == [e EXCEPT !.y = e.y + e.speed]

Inside(e) == e.y <= CanvasHeight

Survivors(q) == SelectSeq([k \in 1 .. Len(q) |-> Advance(q[k])], Inside)

Front(q) == SubSeq(q, 1, Len(q) - 1)

Newest(S) == CHOOSE k \in S : \A m \in S : m <= k

Ticked == lastOp'.op = "gameLoop" /\ Active(gameState)

\* C21: every drop and every waste item in the arrays has
\* -size <= y < canvas height.
C21_EntityWithinField ==
    /\ \A i \in 1 .. Len(gameState.drops) :
          /\ -gameState.drops[i].size <= gameState.drops[i].y
          /\ gameState.drops[i].y < CanvasHeight
    /\ \A j \in 1 .. Len(gameState.waste) :
          /\ -gameState.waste[j].size <= gameState.waste[j].y
          /\ gameState.waste[j].y < CanvasHeight

\* C22: a click that lies on a drop and on a waste item collects the drop
\* and leaves the waste array and its damage alone, whichever is newer.
C22_DropBeforeWaste ==
    [][ (Clicked /\ Active(gameState)
           /\ DropsAt(gameState, lastOp'.at) # {}
           /\ WasteAt(gameState, lastOp'.at) # {})
        => /\ gameState'.waste = gameState.waste
           /\ Len(gameState'.drops) = Len(gameState.drops) - 1
           /\ gameState'.score > gameState.score
           /\ gameState'.waterLevel >= gameState.waterLevel
      ]_vars

C22_DropTakenOverWaste ==
    /\ lastOp.op = "click"
    /\ lastOp.at = <<20, 0>>
    /\ gameState.score = pre.score + 5
    /\ gameState.waterLevel >= pre.waterLevel
    /\ Len(gameState.waste) = 1
    /\ InSquare(lastOp.at, gameState.waste[1])

\* C23: of several drops (or, with no drop hit, several waste items) under
\* the click the one removed is the newest, and the others keep their
\* order.
C23_NewestHitWins ==
    [][ (Clicked /\ Active(gameState)) =>
          LET hitDrops == DropsAt(gameState, lastOp'.at)
              hitWaste == WasteAt(gameState, lastOp'.at)
          IN /\ hitDrops # {} =>
                  gameState'.drops = Without(gameState.drops, Newest(hitDrops))
             /\ (hitDrops = {} /\ hitWaste # {}) =>
                  gameState'.waste = Without(gameState.waste, Newest(hitWaste))
      ]_vars

C23_OlderDropKept ==
    /\ lastOp.op = "click"
    /\ pre.nDrops = 2
    /\ Len(gameState.drops) = 1
    /\ InCircle(lastOp.at, gameState.drops[1])

C23_OlderWasteKept ==
    /\ lastOp.op = "click"
    /\ pre.nWaste = 2
    /\ Len(gameState.waste) = 1
    /\ InSquare(lastOp.at, gameState.waste[1])

\* C24: a tick that drops waste items off the bottom changes waterLevel
\* only by the penalty of the drops it removed, and keeps score and
\* timeLeft.
C24_WasteLeavesFree ==
    [][ (Ticked /\ Len(Survivors(gameState.waste)) < Len(gameState.waste))
        => LET missed == Len(gameState.drops) - Len(Survivors(gameState.drops))
           IN /\ gameState'.waterLevel = gameState.waterLevel - 2 * missed
              /\ gameState'.score = gameState.score
              /\ gameState'.timeLeft = gameState.timeLeft
      ]_vars

C24_WasteFellOff ==
    /\ lastOp.op = "gameLoop"
    /\ pre.nWaste = 2
    /\ Len(gameState.waste) = 1
    /\ SameMeters(gameState, pre)

\* C25: an entity spawned in a tick has moved once by its speed when the
\* tick ends, and no click hits an entity below the bottom of the canvas.
C25_SpawnThenMove ==
    [][ /\ (Ticked /\ env'.drops < env.drops) =>
              /\ Len(gameState'.drops) > 0
              /\ LET e == gameState'.drops[Len(gameState'.drops)]
                 IN e.y = DropSpawnY + e.speed
        /\ (Ticked /\ env'.waste < env.waste) =>
              /\ Len(gameState'.waste) > 0
              /\ LET e == gameState'.waste[Len(gameState'.waste)]
                 IN e.y = WasteSpawnY + e.speed
        /\ Clicked =>
              /\ \A i \in DropsAt(gameState, lastOp'.at) :
                    gameState.drops[i].y <= CanvasHeight
              /\ \A j \in WasteAt(gameState, lastOp'.at) :
                    gameState.waste[j].y <= CanvasHeight
      ]_vars

C25_SpawnedBehindOlderDrop ==
    /\ lastOp.op = "gameLoop"
    /\ pre.nDrops = 1
    /\ Len(gameState.drops) = 2
    /\ gameState.drops[2].y = DropSpawnY + gameState.drops[2].speed
    /\ gameState.drops[1].y > gameState.drops[2].y

\* C26: a drop spawned in a tick entered at y = -size with
\* 0 <= x <= canvas width - size (it has moved once by its speed since).
C26_DropSpawnPosition ==
    [][ (Ticked /\ env'.drops < env.drops) =>
          LET e == gameState'.drops[Len(gameState'.drops)]
          IN /\ e.y - e.speed = -e.size
             /\ 0 <= e.x /\ e.x <= CanvasWidth - e.size
      ]_vars

\* C27: a tick of a running, unpaused game moves the entities, removes
\* those below the bottom and appends at most one new drop and at most one
\* new waste item at the end of its array; a tick of a paused or stopped
\* game changes nothing.
C27_OneSpawnPerKind ==
    [][ lastOp'.op = "gameLoop" =>
          IF Active(gameState)
          THEN /\ \/ gameState'.drops = Survivors(gameState.drops)
                  \/ /\ Len(gameState'.drops) > 0
                     /\ Front(gameState'.drops) = Survivors(gameState.drops)
               /\ \/ gameState'.waste = Survivors(gameState.waste)
                  \/ /\ Len(gameState'.waste) > 0
                     /\ Front(gameState'.waste) = Survivors(gameState.waste)
          ELSE gameState' = gameState
      ]_vars

C27_BothSpawnedInOneTick ==
    /\ lastOp.op = "gameLoop"
    /\ Len(gameState.drops) = pre.nDrops + 1
    /\ Len(gameState.waste) = pre.nWaste + 1

C27_TickWhilePaused ==
    /\ lastOp.op = "gameLoop"
    /\ gameState.isRunning /\ gameState.isPaused
    /\ Len(gameState.drops) > 0

\* C28: the fast-loop handle is set exactly while the game is running
\* (paused or not), and the armed fast intervals are that handle alone.
C28_FastLoopArmedIffActive ==
    /\ gameState.gameLoop # 0 <=> gameState.isRunning
    /\ Cardinality(loops) <= 1
    /\ loops = IF gameState.gameLoop # 0 THEN {gameState.gameLoop} ELSE {}

C28_SecondGamePaused ==
    /\ gameState.isRunning /\ gameState.isPaused
    /\ loops = {2}
    /\ Cardinality(timers) = 2

\* the countdown body runs: an armed countdown interval fires on a running,
\* unpaused game
CountdownBody ==
    /\ gameState.isRunning /\ ~gameState.isPaused
    /\ TimerFires

\* C29 as stated: while the countdown interval keeps firing, a running game
\* that is not left paused forever stops running.
C29_EndsUnlessPausedForever ==
    ([]<>(~gameState.isPaused))
        => (gameState.isRunning ~> ~gameState.isRunning)

\* C29 as amended: while the countdown interval keeps firing, a running
\* game that is not left paused forever, and that a firing of the interval
\* finds unpaused whenever it is unpaused again and again, stops running.
C29_EndsIfBodiesRun ==
    (([]<>(~gameState.isPaused)) /\ SF_vars(CountdownBody))
        => (gameState.isRunning ~> ~gameState.isRunning)

C29_FirstGameRanOut ==
    /\ lastOp.op = "timer"
    /\ pre.isRunning /\ ~gameState.isRunning
    /\ gameState.timeLeft = 0
    /\ nextId = 2

\* C30: a running game stops running only in a close, a hide or the
\* countdown body that reaches 0; with waterLevel at or below 0 the
\* countdown still counts and the loop still moves the drops.
C30_EmptyMeterKeepsRunning ==
    [][ /\ (gameState.isRunning /\ ~gameState'.isRunning) =>
              \/ Stopped(lastOp'.op)
              \/ lastOp'.op = "timer" /\ gameState'.timeLeft = 0
        /\ (Active(gameState) /\ gameState.waterLevel <= 0) =>
              /\ lastOp'.op = "timer" =>
                    gameState'.timeLeft = gameState.timeLeft - 1
              /\ (lastOp'.op = "gameLoop" /\ gameState.drops # <<>>) =>
                    gameState'.drops # gameState.drops
      ]_vars

C30_CountedWhileEmpty ==
    /\ lastOp.op = "timer"
    /\ pre.waterLevel <= 0
    /\ gameState.waterLevel <= 0
    /\ gameState.isRunning
    /\ gameState.timeLeft = pre.timeLeft - 1

====
